---- MODULE Spec2Model ----
(***************************************************************************)
(* Model of the market-data cache, the trading-day resolver and the        *)
(* derived-analytics helpers of src/src/main.py.                          *)
(*                                                                         *)
(* Python values are modelled as follows:                                  *)
(*   None / absent key      <<>>                                           *)
(*   a present value v      <<v>>                                          *)
(*   a date                 its day ordinal (date.toordinal)               *)
(*   a float                an integer count of 1/Scale units              *)
(*   a str                  a sequence of one-character strings            *)
(***************************************************************************)
EXTENDS Integers, Sequences, FiniteSets, TLC

VARIABLES now, cacheFile, last, call, ui

vars == <<now, cacheFile, last, call, ui>>

None == <<>>
Some(v) == <<v>>

(* ------------------------------ bounds --------------------------------- *)
MaxDay == 2          \* calendar days 1..MaxDay are explored
MaxSub == 1          \* sub-hour instants 0..MaxSub inside every hour
MaxHorizon == 1      \* horizon indices 0..MaxHorizon are explored
MaxGrid == 300       \* float strikes k/256 for k in -MaxGrid..MaxGrid
MaxDelta == 30       \* deltas k/20 for k in -MaxDelta..MaxDelta

(* ------------------------- trading-day resolver ------------------------ *)
CloseHour == 16
HoursPerDay == 24

Times == [day : 1..MaxDay, hour : 0..(HoursPerDay - 1), sub : 0..MaxSub]

\* datetime comparison: both operands carry the same tzinfo, so Python
\* compares the wall-clock fields lexicographically
Before(a, b) ==
    \/ a.day < b.day
    \/ a.day = b.day /\ a.hour < b.hour
    \/ a.day = b.day /\ a.hour = b.hour /\ a.sub < b.sub

market_close(t) == [day |-> t.day, hour |-> CloseHour, sub |-> 0]

\* variant: "now <= market_close"
effective_market_date_inclusive(t) ==
    IF Before(t, market_close(t)) \/ t = market_close(t) THEN t.day - 1 ELSE t.day

effective_market_date(t) ==
    IF Before(t, market_close(t)) THEN t.day - 1 ELSE t.day

\* a caller asks for the current effective trading-day label
ResolveLabel ==
    /\ call' = [fn |-> "effective_market_date", at |-> now,
                res |-> effective_market_date(now)]
    /\ UNCHANGED <<now, cacheFile, last, ui>>

\* the wall clock moves forward
Tick ==
    /\ \E t \in Times : Before(now, t) /\ now' = t
    /\ UNCHANGED <<cacheFile, last, call, ui>>

(* ------------------------- Python dict helpers ------------------------- *)
EmptyDict == <<>>

\* dict.get(key): the stored value, None when the key is absent
Get(d, k) == IF k \in DOMAIN d THEN d[k] ELSE None

\* dict.get(key, {}) for a dict-valued key
GetDict(d, k) == IF k \in DOMAIN d /\ d[k] # None THEN d[k][1] ELSE EmptyDict

\* dict.update(other)
Update(d, e) ==
    [k \in (DOMAIN d) \cup (DOMAIN e) |-> IF k \in DOMAIN e THEN e[k] ELSE d[k]]

\* d[key] = value
SetItem(d, k, v) ==
    [x \in (DOMAIN d) \cup {k} |-> IF x = k THEN v ELSE d[x]]

\* "a or b" on optional numbers: None and 0 are falsy
OrNum(a, b) == IF a # None /\ a[1] # 0 THEN a ELSE b

\* "a or b" on optional strings: None and "" are falsy
OrStr(a, b) == IF a # None /\ a[1] # "" THEN a ELSE b

(* ------------------------- contract normalizer ------------------------- *)
normalize_record(record) ==
    LET details    == GetDict(record, "details")
        greeks     == GetDict(record, "greeks")
        day        == GetDict(record, "day")
        last_trade == GetDict(record, "last_trade")
        last_quote == GetDict(record, "last_quote")
        implied_vol ==
            IF Get(greeks, "iv") # None THEN Get(greeks, "iv")
            ELSE OrNum(Get(record, "implied_volatility"), Get(record, "implied_vol"))
        volume ==
            IF Get(record, "volume") # None THEN Get(record, "volume")
            ELSE OrNum(Get(day, "volume"), Get(day, "v"))
        open_interest ==
            OrNum(Get(record, "open_interest"), Get(details, "open_interest"))
    IN  [ticker |-> OrStr(Get(record, "ticker"), Get(details, "ticker")),
         expiration_date |->
             OrStr(Get(record, "expiration_date"), Get(details, "expiration_date")),
         contract_type |->
             OrStr(Get(record, "contract_type"), Get(details, "contract_type")),
         strike_price |->
             OrNum(Get(record, "strike_price"), Get(details, "strike_price")),
         implied_volatility |-> implied_vol,
         volume |-> volume,
         open_interest |-> open_interest,
         day_close |->
             OrNum(Get(record, "close"),
                   OrNum(Get(day, "close"),
                         OrNum(Get(day, "c"), Get(record, "day_close")))),
         bid |->
             OrNum(Get(record, "bid"),
                   OrNum(Get(last_quote, "bid"),
                         OrNum(Get(last_quote, "bid_price"), Get(last_quote, "bp")))),
         ask |->
             OrNum(Get(record, "ask"),
                   OrNum(Get(last_quote, "ask"),
                         OrNum(Get(last_quote, "ask_price"), Get(last_quote, "ap")))),
         last |->
             OrNum(Get(record, "last"),
                   OrNum(Get(last_trade, "price"), Get(last_trade, "p"))),
         greeks |-> Some([delta |-> Get(greeks, "delta"),
                          gamma |-> Get(greeks, "gamma"),
                          theta |-> Get(greeks, "theta"),
                          vega  |-> Get(greeks, "vega"),
                          rho   |-> Get(greeks, "rho"),
                          iv    |-> implied_vol])]

normalize_option_records(records) ==
    [i \in 1..Len(records) |-> normalize_record(records[i])]

(* ---------------------------- provider feeds --------------------------- *)
\* What the provider answers while the effective trading-day label is L.
\* Every figure that moves from one session to the next carries L.

\* MassiveApiClient.fetch_previous_close: always a dict with these five keys
StockOn(L) ==
    [close |-> Some(L), open |-> Some(L), high |-> Some(L), low |-> Some(L),
     volume |-> None]

\* one element of MassiveApiClient.fetch_option_snapshots's result
SnapshotOn(L) ==
    [ticker |-> Some("O:TKR"), expiration_date |-> Some("2024-01-19"),
     contract_type |-> Some("call"), strike_price |-> Some(100),
     greeks |-> Some([delta |-> Some(0)]), implied_volatility |-> None,
     volume |-> Some(0), open_interest |-> Some(0),
     day_close |-> Some(L), bid |-> Some(0), ask |-> Some(12), last |-> None]

OptionFeeds(L) == { <<>>, <<SnapshotOn(L)>> }

\* MassiveApiClient.fetch_aggregates: a list of bars, possibly empty
AggregateFeeds(L) == { <<>>, <<[c |-> Some(L), t |-> Some(L)]>> }

Failures == {"HTTPError", "URLError"}
CallResults == {"ok"} \cup Failures

(* ------------------------------ cache file ----------------------------- *)
\* content of data/<TICKER>.json:
\*   absent   no such file
\*   garbage  text that json.loads rejects
\*   list     valid JSON, a non-empty value that is not an object, e.g. [1]
\*   null     valid JSON, an empty value that is not an object, e.g. null
\*   dict     a JSON object: the payload
FileKinds == {"absent", "garbage", "list", "null", "dict"}

File(kind, payload) == [kind |-> kind, payload |-> payload]

\* json.loads(path.read_text()), None for a missing or unparseable file
load_cached_market_data(f) ==
    IF f.kind \in {"absent", "garbage"}
    THEN [kind |-> "None", payload |-> EmptyDict]
    ELSE [kind |-> f.kind, payload |-> IF f.kind = "dict" THEN f.payload ELSE EmptyDict]

\* "load_cached_market_data(ticker) or {}"
OrEmptyDict(v) ==
    IF v.kind \in {"None", "null"} \/ (v.kind = "dict" /\ DOMAIN v.payload = {})
    THEN [kind |-> "dict", payload |-> EmptyDict]
    ELSE v

\* path.write_text(json.dumps(payload))
save_cached_market_data(payload) == File("dict", payload)

NumHorizons == MaxHorizon + 1

\* min(max(horizon_index, 0), len(HORIZON_CONFIGS) - 1)
ClampHorizon(raw) ==
    IF raw < 0 THEN 0 ELSE IF raw > NumHorizons - 1 THEN NumHorizons - 1 ELSE raw

NoRequest ==
    [op |-> "none", horizon |-> 0, label |-> 0, calls |-> <<>>, outcome |-> "none",
     stock |-> None, options |-> None, aggregates |-> None]

(* ----------------------- AnalysisPage.load_market_data ----------------- *)
\* variant: an empty bucket, stock or options list counts as missing
ShouldFetch_falsy(cache_payload, today_label, horizon_index) ==
    LET aggregates_map == GetDict(cache_payload, "aggregates")
    IN  \/ Get(cache_payload, "last_updated") # Some(today_label)
        \/ Get(cache_payload, "stock") = None
        \/ Get(cache_payload, "options") \in {None, Some(<<>>)}
        \/ Get(aggregates_map, horizon_index) \in {None, Some(<<>>)}

\* variant: only the date decides
ShouldFetch_dateonly(cache_payload, today_label, horizon_index) ==
    Get(cache_payload, "last_updated") # Some(today_label)

\* should_fetch, from the payload read at the start of the request
ShouldFetch(cache_payload, today_label, horizon_index) ==
    LET aggregates_map == GetDict(cache_payload, "aggregates")
    IN  \/ Get(cache_payload, "last_updated") # Some(today_label)
        \/ Get(cache_payload, "stock") = None
        \/ Get(cache_payload, "options") = None
        \/ Get(aggregates_map, horizon_index) = None

\* the provider calls a refresh makes before it stops: r[i] is the result of
\* the i-th call, and the first failure ends the request
CallNames == <<"fetch_previous_close", "fetch_option_snapshots", "fetch_aggregates">>

CallsMade(r) ==
    IF r[1] # "ok" THEN SubSeq(CallNames, 1, 1)
    ELSE IF r[2] # "ok" THEN SubSeq(CallNames, 1, 2)
    ELSE CallNames

FirstFailure(r) ==
    IF r[1] # "ok" THEN r[1] ELSE IF r[2] # "ok" THEN r[2] ELSE r[3]

\* variant: the refresh forgets to stamp the payload
RefreshedPayload_nostamp(cache_payload, today_label, horizon_index, option_data, aggregates) ==
    LET aggregates_map ==
            SetItem(GetDict(cache_payload, "aggregates"), horizon_index, Some(aggregates))
    IN  Update(cache_payload,
               [stock |-> Some(StockOn(today_label)),
                options |-> Some(normalize_option_records(option_data)),
                aggregates |-> Some(aggregates_map)])

\* variant: the refresh replaces the aggregates map by the new bucket alone
RefreshedPayload_replace(cache_payload, today_label, horizon_index, option_data, aggregates) ==
    Update(cache_payload,
           [last_updated |-> Some(today_label),
            stock |-> Some(StockOn(today_label)),
            options |-> Some(normalize_option_records(option_data)),
            aggregates |-> Some(SetItem(EmptyDict, horizon_index, Some(aggregates)))])

\* the payload a successful refresh writes
RefreshedPayload(cache_payload, today_label, horizon_index, option_data, aggregates) ==
    LET aggregates_map ==
            SetItem(GetDict(cache_payload, "aggregates"), horizon_index, Some(aggregates))
    IN  Update(cache_payload,
               [last_updated |-> Some(today_label),
                stock |-> Some(StockOn(today_label)),
                options |-> Some(normalize_option_records(option_data)),
                aggregates |-> Some(aggregates_map)])

LoadMarketData(raw, r, option_data, aggregates) ==
    LET loaded == OrEmptyDict(load_cached_market_data(cacheFile))
        cache_payload == loaded.payload
        horizon_index == ClampHorizon(raw)
        today_label == effective_market_date(now)
        req == [NoRequest EXCEPT !.op = "load_market_data",
                                 !.horizon = horizon_index,
                                 !.label = today_label]
    IN  /\ UNCHANGED <<now, call, ui>>
        /\ IF loaded.kind # "dict"
           THEN \* cache_payload.get on a non-dict value
                /\ last' = [req EXCEPT !.outcome = "AttributeError"]
                /\ UNCHANGED cacheFile
           ELSE IF ShouldFetch(cache_payload, today_label, horizon_index)
           THEN IF FirstFailure(r) # "ok"
                THEN /\ last' = [req EXCEPT !.calls = CallsMade(r),
                                            !.outcome = FirstFailure(r)]
                     /\ UNCHANGED cacheFile
                ELSE LET written == RefreshedPayload(cache_payload, today_label,
                                                     horizon_index, option_data, aggregates)
                     IN  /\ cacheFile' = save_cached_market_data(written)
                         /\ last' = [req EXCEPT !.calls = CallNames,
                                                !.outcome = "ok",
                                                !.stock = Some(StockOn(today_label)),
                                                !.options = written["options"],
                                                !.aggregates = Some(aggregates)]
           ELSE /\ last' =
                    [req EXCEPT !.outcome = "ok",
                                !.stock = Get(cache_payload, "stock"),
                                !.options = Some(normalize_option_records(
                                                     Get(cache_payload, "options")[1])),
                                !.aggregates = Get(GetDict(cache_payload, "aggregates"),
                                                   horizon_index)]
                /\ UNCHANGED cacheFile

(* --------------------------- load_option_records ----------------------- *)
OptionsFresh(cache_payload, today_label) ==
    /\ Get(cache_payload, "options") # None
    /\ Get(cache_payload, "last_updated") = Some(today_label)

\* variant: the payload is stamped and saved before the fetch is known to
\* have succeeded
LoadOptionRecords_stamp(r, option_data) ==
    LET loaded == OrEmptyDict(load_cached_market_data(cacheFile))
        cache_payload == loaded.payload
        today_label == effective_market_date(now)
        req == [NoRequest EXCEPT !.op = "load_option_records", !.label = today_label]
    IN  /\ UNCHANGED <<now, call, ui>>
        /\ IF loaded.kind # "dict"
           THEN /\ last' = [req EXCEPT !.outcome = "AttributeError"]
                /\ UNCHANGED cacheFile
           ELSE IF OptionsFresh(cache_payload, today_label)
           THEN /\ last' = [req EXCEPT !.outcome = "ok",
                                       !.options = Some(normalize_option_records(
                                                       Get(cache_payload, "options")[1]))]
                /\ UNCHANGED cacheFile
           ELSE IF r # "ok"
           THEN /\ last' = [req EXCEPT !.calls = SubSeq(CallNames, 2, 2), !.outcome = r]
                /\ cacheFile' = save_cached_market_data(
                                     Update(cache_payload,
                                            [last_updated |-> Some(today_label)]))
           ELSE LET option_records == normalize_option_records(option_data)
                    written == Update(cache_payload,
                                      [last_updated |-> Some(today_label),
                                       options |-> Some(option_records)])
                IN  /\ cacheFile' = save_cached_market_data(written)
                    /\ last' = [req EXCEPT !.calls = SubSeq(CallNames, 2, 2),
                                           !.outcome = "ok",
                                           !.options = Some(option_records)]

LoadOptionRecords(r, option_data) ==
    LET loaded == OrEmptyDict(load_cached_market_data(cacheFile))
        cache_payload == loaded.payload
        today_label == effective_market_date(now)
        req == [NoRequest EXCEPT !.op = "load_option_records", !.label = today_label]
    IN  /\ UNCHANGED <<now, call, ui>>
        /\ IF loaded.kind # "dict"
           THEN /\ last' = [req EXCEPT !.outcome = "AttributeError"]
                /\ UNCHANGED cacheFile
           ELSE IF OptionsFresh(cache_payload, today_label)
           THEN /\ last' = [req EXCEPT !.outcome = "ok",
                                       !.options = Some(normalize_option_records(
                                                       Get(cache_payload, "options")[1]))]
                /\ UNCHANGED cacheFile
           ELSE IF r # "ok"
           THEN /\ last' = [req EXCEPT !.calls = SubSeq(CallNames, 2, 2), !.outcome = r]
                /\ UNCHANGED cacheFile
           ELSE LET option_records == normalize_option_records(option_data)
                    written == Update(cache_payload,
                                      [last_updated |-> Some(today_label),
                                       options |-> Some(option_records)])
                IN  /\ cacheFile' = save_cached_market_data(written)
                    /\ last' = [req EXCEPT !.calls = SubSeq(CallNames, 2, 2),
                                           !.outcome = "ok",
                                           !.options = Some(option_records)]

(* ------------------------------ environment ---------------------------- *)
\* something other than the program replaces or removes the cache file
Corrupt ==
    /\ \E k \in FileKinds \ {"dict"} : cacheFile' = File(k, EmptyDict)
    /\ cacheFile'.kind # cacheFile.kind
    /\ last' = NoRequest
    /\ UNCHANGED <<now, call, ui>>

\* the wall clock reaches the hour before or the instant of a later close
CloseTimes == {t \in Times : t.hour \in {CloseHour - 1, CloseHour} /\ t.sub = 0}

AdvanceClock ==
    /\ \E t \in CloseTimes : Before(now, t) /\ now' = t
    /\ last' = NoRequest
    /\ UNCHANGED <<cacheFile, call, ui>>

NoCall == [fn |-> "none"]

\* no analysis page is open
NoPage == [page |-> "none"]

Init ==
    /\ now = [day |-> 1, hour |-> CloseHour - 1, sub |-> 0]
    /\ cacheFile = File("absent", EmptyDict)
    /\ last = NoRequest
    /\ call = NoCall
    /\ ui = NoPage

\* results of the three provider calls; nothing is called after a failure
CallPlans ==
    {r \in [1..3 -> CallResults] :
        \A i \in 1..3 : r[i] # "ok" => \A j \in (i + 1)..3 : r[j] = "ok"}

RequestMarketData ==
    \E raw \in (-1)..(MaxHorizon + 1), r \in CallPlans :
        \E option_data \in OptionFeeds(effective_market_date(now)),
           aggregates \in AggregateFeeds(effective_market_date(now)) :
            LoadMarketData(raw, r, option_data, aggregates)

RequestOptionRecords ==
    \E r \in CallResults :
        \E option_data \in OptionFeeds(effective_market_date(now)) :
            LoadOptionRecords(r, option_data)

Next ==
    \/ RequestMarketData
    \/ RequestOptionRecords
    \/ AdvanceClock
    \/ Corrupt

Spec == Init /\ [][Next]_vars

(* ======================================================================= *)
(* Properties of the market-data cache                                     *)
(* ======================================================================= *)
IsUsable(f) == f.kind = "dict"

HasKey(f, k) == IsUsable(f) /\ k \in DOMAIN f.payload /\ f.payload[k] # None

HasBucket(f, h) ==
    /\ HasKey(f, "aggregates")
    /\ h \in DOMAIN f.payload["aggregates"][1]
    /\ f.payload["aggregates"][1][h] # None

Bucket(f, h) == f.payload["aggregates"][1][h]

Stamped(f, L) == HasKey(f, "last_updated") /\ f.payload["last_updated"] = Some(L)

\* the file holds a complete payload for horizon h stamped with label L
FreshFor(f, L, h) ==
    /\ Stamped(f, L)
    /\ HasKey(f, "stock")
    /\ HasKey(f, "options")
    /\ HasBucket(f, h)

\* this step is a request made through AnalysisPage.load_market_data
MarketDataStep == last'.op = "load_market_data"

\* this step is a request made through load_option_records
OptionRecordsStep == last'.op = "load_option_records"

\* C1: a load_market_data request that finds a payload stamped with the
\* current label and holding stock, options and the requested bucket makes no
\* provider call and serves exactly the cached stock, options and bucket.
C1_FreshServesCache ==
    [][(MarketDataStep /\ FreshFor(cacheFile, last'.label, last'.horizon)) =>
          /\ last'.calls = <<>>
          /\ last'.outcome = "ok"
          /\ last'.stock = cacheFile.payload["stock"]
          /\ last'.options = cacheFile.payload["options"]
          /\ last'.aggregates = Bucket(cacheFile, last'.horizon)
          /\ cacheFile' = cacheFile]_vars

C1_Witness ==
    /\ last.op = "load_market_data"
    /\ last.calls = <<>>
    /\ last.outcome = "ok"
    /\ FreshFor(cacheFile, last.label, last.horizon)
    /\ last.options = cacheFile.payload["options"]
    /\ last.options # Some(<<>>)
    /\ last.aggregates = Some(<<>>)

C3_RefreshThenFresh ==
    [][/\ (MarketDataStep /\ last'.outcome = "ok"
             /\ ~ FreshFor(cacheFile, last'.label, last'.horizon))
          => /\ last'.calls = CallNames
             /\ FreshFor(cacheFile', last'.label, last'.horizon)
             /\ cacheFile'.payload["stock"] = last'.stock
             /\ cacheFile'.payload["options"] = last'.options
             /\ Bucket(cacheFile', last'.horizon) = last'.aggregates
       /\ (/\ last.op = "load_market_data" /\ last.outcome = "ok"
           /\ last.calls = CallNames
           /\ MarketDataStep
           /\ last'.horizon = last.horizon /\ last'.label = last.label)
          => /\ last'.calls = <<>>
             /\ last'.outcome = "ok"
             /\ last'.stock = last.stock
             /\ last'.options = last.options
             /\ last'.aggregates = last.aggregates]_vars

\* the request right after a refresh was served without a provider call
C3_Witness ==
    /\ last.op = "load_market_data"
    /\ last.outcome = "ok"
    /\ last.calls = <<>>
    /\ last.label > 0
    /\ last.stock = Some(StockOn(last.label))
    /\ last.aggregates = Some(<<[c |-> Some(last.label), t |-> Some(last.label)]>>)

\* C4: a refresh for horizon h leaves every other bucket of the persisted
\* payload as it was, and a request through load_option_records leaves the
\* stock and aggregates fields of the payload as they were.
C4_RefreshFrame ==
    [][/\ (MarketDataStep /\ IsUsable(cacheFile))
          => \A k \in 0..MaxHorizon :
                (k # last'.horizon /\ HasBucket(cacheFile, k))
                   => (HasBucket(cacheFile', k)
                        /\ Bucket(cacheFile', k) = Bucket(cacheFile, k))
       /\ (OptionRecordsStep /\ IsUsable(cacheFile))
          => /\ IsUsable(cacheFile')
             /\ Get(cacheFile'.payload, "stock") = Get(cacheFile.payload, "stock")
             /\ Get(cacheFile'.payload, "aggregates")
                   = Get(cacheFile.payload, "aggregates")]_vars

\* a refresh for one horizon was written next to an older bucket of another
C4_Witness ==
    /\ last.op = "load_market_data"
    /\ last.outcome = "ok"
    /\ last.calls = CallNames
    /\ \E k \in 0..MaxHorizon :
          /\ k # last.horizon
          /\ HasBucket(cacheFile, k)
          /\ \E i \in 1..Len(Bucket(cacheFile, k)[1]) :
                Bucket(cacheFile, k)[1][i]["t"][1] < last.label

\* C5 as stated: a bucket cached under an earlier label is refetched, not
\* served as it is, the next time its horizon is requested.
C5_Original ==
    [][(/\ MarketDataStep
        /\ HasBucket(cacheFile, last'.horizon)
        /\ \E i \in 1..Len(Bucket(cacheFile, last'.horizon)[1]) :
              Bucket(cacheFile, last'.horizon)[1][i]["t"][1] < last'.label)
       => "fetch_aggregates" \in {last'.calls[i] : i \in 1..Len(last'.calls)}
          \/ last'.outcome \in Failures]_vars

\* C6 as stated: a cache file whose content is not a usable payload is
\* handled as an absent file: the request takes the Stale path and no error
\* escapes to the caller.
C6_Original ==
    [][(last'.op # "none" /\ cacheFile.kind \in {"garbage", "list", "null"})
       => /\ last'.outcome \in {"ok"} \cup Failures
          /\ last'.calls # <<>>]_vars

(* ======================================================================= *)
(* Strike formatter                                                        *)
(* ======================================================================= *)
\* A float is an integer count of 1/Scale units.  Scale = lcm(256, 100):
\* every k/256 is a binary fraction, hence an exact double, and the double
\* nearest to m/100 formats and compares as m/100.
Scale == 6400
GridStep == 25       \* 1/256 in 1/Scale units
CentStep == 64       \* 1/100 in 1/Scale units

DigitChars == <<"0", "1", "2", "3", "4", "5", "6", "7", "8", "9">>

IsDigit(c) == \E d \in 0..9 : DigitChars[d + 1] = c

DigitVal(c) == CHOOSE d \in 0..9 : DigitChars[d + 1] = c

Abs(n) == IF n < 0 THEN -n ELSE n

RECURSIVE NatStr(_)
\* str() of a natural number
NatStr(n) == IF n < 10 THEN <<DigitChars[n + 1]>>
             ELSE Append(NatStr(n \div 10), DigitChars[(n % 10) + 1])

\* str() of an int
IntStr(n) == IF n < 0 THEN <<"-">> \o NatStr(-n) ELSE NatStr(n)

RECURSIVE RStrip(_, _)
\* str.rstrip(c) for a single character c
RStrip(s, c) ==
    IF Len(s) > 0 /\ s[Len(s)] = c THEN RStrip(SubSeq(s, 1, Len(s) - 1), c) ELSE s

RECURSIVE DigitsVal(_)
\* value of a run of decimal digits
DigitsVal(s) ==
    IF Len(s) = 0 THEN 0
    ELSE 10 * DigitsVal(SubSeq(s, 1, Len(s) - 1)) + DigitVal(s[Len(s)])

RECURSIVE Pow10(_)
Pow10(n) == IF n = 0 THEN 1 ELSE 10 * Pow10(n - 1)

\* float(text) for plain decimal text: [-]digits[.digits]; None stands for
\* ValueError.  Exact for at most two decimals, which is all that occurs.
ParseFloat(s) ==
    LET neg  == Len(s) > 0 /\ s[1] = "-"
        body == IF neg THEN SubSeq(s, 2, Len(s)) ELSE s
        dots == {i \in 1..Len(body) : body[i] = "."}
        dot  == IF dots = {} THEN Len(body) + 1 ELSE CHOOSE i \in dots : TRUE
        ip   == SubSeq(body, 1, dot - 1)
        fp   == SubSeq(body, dot + 1, Len(body))
        ok   == /\ Cardinality(dots) <= 1
                /\ Len(ip) + Len(fp) > 0
                /\ \A i \in 1..Len(ip) : IsDigit(ip[i])
                /\ \A i \in 1..Len(fp) : IsDigit(fp[i])
        mag  == DigitsVal(ip) * Scale + (DigitsVal(fp) * Scale) \div Pow10(Len(fp))
    IN  IF ok THEN Some(IF neg THEN -mag ELSE mag) ELSE None

\* strike values: Python int, float or str
PyInt(n) == [t |-> "int", v |-> n]
PyFloat(n) == [t |-> "float", v |-> n]
PyStr(s) == [t |-> "str", v |-> s]

\* float(value)
ToFloat(value) ==
    IF value.t = "int" THEN Some(value.v * Scale)
    ELSE IF value.t = "float" THEN Some(value.v)
    ELSE ParseFloat(value.v)

\* f"{numeric:.2f}": round to the nearest hundredth, ties to even; the sign
\* of a negative value is kept even when the digits round to zero
Format2f(numeric) ==
    LET mag   == Abs(numeric)
        q     == mag \div CentStep
        r     == mag % CentStep
        cents == IF 2 * r < CentStep THEN q
                 ELSE IF 2 * r > CentStep THEN q + 1
                 ELSE IF q % 2 = 0 THEN q ELSE q + 1
    IN  (IF numeric < 0 THEN <<"-">> ELSE <<>>)
        \o NatStr(cents \div 100) \o <<".">>
        \o <<DigitChars[((cents % 100) \div 10) + 1], DigitChars[(cents % 10) + 1]>>

\* format_strike for a value that is not None
format_strike(value) ==
    LET numeric == ToFloat(value)
    IN  IF numeric = None THEN value.v
        ELSE IF numeric[1] % Scale = 0 THEN IntStr(numeric[1] \div Scale)
        ELSE RStrip(RStrip(Format2f(numeric[1]), "0"), ".")

(* ======================================================================= *)
(* Derived analytics                                                       *)
(* ======================================================================= *)
\* variant: truthiness instead of isinstance, so that 0 counts as missing
IsNumber_truthy(x) == x # None /\ x[1] # 0

\* isinstance(x, (int, float)) for an optional number
IsNumber(x) == x # None

option_mid_price(contract) ==
    LET bid == Get(contract, "bid")
        ask == Get(contract, "ask")
        last_ == Get(contract, "last")
        day_close == Get(contract, "day_close")
    IN  IF IsNumber(bid) /\ IsNumber(ask) THEN Some((bid[1] + ask[1]) \div 2)
        ELSE IF IsNumber(last_) THEN last_
        ELSE IF IsNumber(day_close) THEN day_close
        ELSE IF IsNumber(bid) THEN bid
        ELSE IF IsNumber(ask) THEN ask
        ELSE None

extract_greeks(contract) ==
    LET greeks == GetDict(contract, "greeks")
        implied_vol ==
            IF Get(greeks, "iv") # None THEN Get(greeks, "iv")
            ELSE OrNum(Get(contract, "implied_volatility"), Get(contract, "implied_vol"))
    IN  [delta |-> Get(greeks, "delta"),
         gamma |-> Get(greeks, "gamma"),
         theta |-> Get(greeks, "theta"),
         vega  |-> Get(greeks, "vega"),
         rho   |-> Get(greeks, "rho"),
         iv    |-> implied_vol]

Min(a, b) == IF a < b THEN a ELSE b
Max(a, b) == IF a > b THEN a ELSE b

\* variant: the absolute value is forgotten
option_likelihood_noabs(contract) ==
    LET delta == extract_greeks(contract)["delta"]
    IN  IF delta = None THEN None
        ELSE Some(Max(0, Min(Scale, delta[1])))

option_likelihood(contract) ==
    LET delta == extract_greeks(contract)["delta"]
    IN  IF delta = None THEN None
        ELSE Some(Max(0, Min(Scale, Abs(delta[1]))))

(* ======================================================================= *)
(* The trading-day resolver on its own                                     *)
(* ======================================================================= *)
InitClock ==
    /\ now = [day |-> 1, hour |-> 0, sub |-> 0]
    /\ cacheFile = File("absent", EmptyDict)
    /\ last = NoRequest
    /\ call = NoCall
    /\ ui = NoPage

NextClock ==
    \/ Tick
    \/ ResolveLabel

SpecClock == InitClock /\ [][NextClock]_vars

\* C7: effective_market_date is the previous calendar day at every time
\* strictly before 16:00:00 and the same calendar day from 16:00:00 on; as
\* time advances the label never decreases, and within one calendar day it
\* changes exactly when the clock passes from before the close to the close
\* or later.
C7_LabelAdvancesAtClose ==
    /\ [](call.fn = "effective_market_date" =>
            call.res = IF call.at.hour < CloseHour THEN call.at.day - 1
                       ELSE call.at.day)
    /\ [][/\ effective_market_date(now') >= effective_market_date(now)
          /\ now'.day = now.day =>
               (effective_market_date(now') # effective_market_date(now)
                  <=> (now.hour < CloseHour /\ now'.hour >= CloseHour))]_vars

\* the label was resolved in the last instant before the close
C7_Witness ==
    /\ call.fn = "effective_market_date"
    /\ call.at = [day |-> 2, hour |-> CloseHour - 1, sub |-> MaxSub]
    /\ call.res = 1
    /\ now = [day |-> 2, hour |-> CloseHour, sub |-> 0]
    /\ effective_market_date(now) = 2

(* ======================================================================= *)
(* The pure helpers on their own                                           *)
(* ======================================================================= *)
Str100_00 == <<"1", "0", "0", ".", "0", "0">>
Str100_0 == <<"1", "0", "0", ".", "0">>
Str1_5 == <<"1", ".", "5">>

NumberStrikes ==
    {PyFloat(GridStep * k) : k \in (-MaxGrid)..MaxGrid}
    \cup {PyFloat(100 * Scale), PyFloat(-100 * Scale)}
    \cup {PyInt(n) : n \in {-100, -1, 0, 1, 100}}

TextStrikes == {PyStr(Str100_00), PyStr(Str100_0), PyStr(Str1_5)}

\* quotes in 1/Scale units, all even so that the average is exact
QuoteValues == {0, 9 * Scale, 10 * Scale, 12 * Scale}

OptQuotes == {None} \cup {Some(v) : v \in QuoteValues}

QuoteContracts == [bid : OptQuotes, ask : OptQuotes, last : OptQuotes, day_close : OptQuotes]

DeltaValues == {k * (Scale \div 20) : k \in (-MaxDelta)..MaxDelta}

\* contracts with and without a greeks dict, with and without a delta
DeltaContracts ==
    {[ticker |-> Some("O:TKR")], [greeks |-> None], [greeks |-> Some([gamma |-> Some(0)])]}
    \cup {[greeks |-> Some([delta |-> d])] : d \in {None} \cup {Some(v) : v \in DeltaValues}}

FormatStrikeOf(x) ==
    call' = [fn |-> "format_strike", arg |-> x, res |-> format_strike(x)]

FormatStrike ==
    /\ \/ \E x \in NumberStrikes : FormatStrikeOf(x)
       \/ \E x \in TextStrikes : FormatStrikeOf(x)
    /\ UNCHANGED <<now, cacheFile, last, ui>>

\* the formatted text is formatted again
ReformatStrike ==
    /\ call.fn = "format_strike"
    /\ call' = [fn |-> "format_strike", arg |-> PyStr(call.res),
                res |-> format_strike(PyStr(call.res))]
    /\ UNCHANGED <<now, cacheFile, last, ui>>

MidPrice ==
    /\ \E c \in QuoteContracts :
          call' = [fn |-> "option_mid_price", arg |-> c, res |-> option_mid_price(c)]
    /\ UNCHANGED <<now, cacheFile, last, ui>>

Likelihood ==
    /\ \E c \in DeltaContracts :
          call' = [fn |-> "option_likelihood", arg |-> c, res |-> option_likelihood(c)]
    /\ UNCHANGED <<now, cacheFile, last, ui>>

NextPure ==
    \/ FormatStrike
    \/ ReformatStrike
    \/ MidPrice
    \/ Likelihood

SpecPure == InitClock /\ [][NextPure]_vars

\* C8 as stated: formatting the text format_strike produced for a numeric
\* input gives the same text again, and two inputs with the same numeric
\* value give the same text whatever their representation.
C8_Original ==
    [][(/\ call.fn = "format_strike" /\ call'.fn = "format_strike"
        /\ ToFloat(call.arg) # None
        /\ \/ (call'.arg.t = "str" /\ call'.arg.v = call.res)
           \/ ToFloat(call'.arg) = ToFloat(call.arg))
       => call'.res = call.res]_vars

\* C9: option_mid_price is the average of bid and ask when both are present,
\* otherwise last, otherwise day_close, otherwise bid, otherwise ask,
\* otherwise missing; a present zero counts as present at every step.
C9_MidPriceFallback ==
    call.fn = "option_mid_price" =>
        LET c == call.arg
            Has(k) == c[k] # None
        IN  call.res =
               IF Has("bid") /\ Has("ask") THEN Some((c["bid"][1] + c["ask"][1]) \div 2)
               ELSE IF Has("last") THEN c["last"]
               ELSE IF Has("day_close") THEN c["day_close"]
               ELSE IF Has("bid") THEN c["bid"]
               ELSE IF Has("ask") THEN c["ask"]
               ELSE None

\* a zero bid alone is the mid-price
C9_Witness ==
    /\ call.fn = "option_mid_price"
    /\ call.arg = [bid |-> Some(0), ask |-> None, last |-> None, day_close |-> None]
    /\ call.res = Some(0)

\* C10: option_likelihood is missing exactly when the contract has no delta,
\* and otherwise min(1, |delta|), a value in [0,1].
C10_LikelihoodClamped ==
    call.fn = "option_likelihood" =>
        LET c == call.arg
            delta == IF "greeks" \in DOMAIN c /\ c["greeks"] # None
                        /\ "delta" \in DOMAIN c["greeks"][1]
                     THEN c["greeks"][1]["delta"] ELSE None
        IN  /\ call.res = None <=> delta = None
            /\ delta # None =>
                  /\ call.res = Some(IF Abs(delta[1]) < Scale THEN Abs(delta[1]) ELSE Scale)
                  /\ call.res[1] >= 0
                  /\ call.res[1] <= Scale

\* a negative delta inside the range gave its absolute value
C10_Witness ==
    /\ call.fn = "option_likelihood"
    /\ call.arg = [greeks |-> Some([delta |-> Some(-7 * (Scale \div 20))])]
    /\ call.res = Some(7 * (Scale \div 20))

(* ======================================================================= *)
(* Combined greeks                                                         *)
(* ======================================================================= *)
GreekKeys == {"delta", "gamma", "theta", "vega", "rho"}

\* "x or 0" on an optional number
OrZero(x) == IF x # None /\ x[1] # 0 THEN x[1] ELSE 0

\* variant: two missing values combine to zero
CombineValue_zero(long_value, short_value) ==
    Some(OrZero(long_value) - OrZero(short_value))

\* one pass of the loop over the five greeks
CombineValue(long_value, short_value) ==
    IF IsNumber(long_value) \/ IsNumber(short_value)
    THEN Some(OrZero(long_value) - OrZero(short_value))
    ELSE None

combine_greeks(long_leg, short_leg) ==
    LET long_greeks  == extract_greeks(long_leg)
        short_greeks == extract_greeks(short_leg)
        iv_long  == long_greeks["iv"]
        iv_short == short_greeks["iv"]
    IN  [k \in GreekKeys \cup {"iv"} |->
            IF k = "iv"
            THEN IF IsNumber(iv_long) /\ IsNumber(iv_short)
                 THEN Some((iv_long[1] + iv_short[1]) \div 2)
                 ELSE IF iv_long # None THEN iv_long ELSE iv_short
            ELSE CombineValue(long_greeks[k], short_greeks[k])]

(* ======================================================================= *)
(* Spread constructor                                                      *)
(* ======================================================================= *)
\* In the records below ticker and contract_type are strings, strike_price
\* and the quotes are floats, and expiration_date is a sequence of characters
\* so that dates can be ordered and concatenated as text.

\* str.upper() of the contract-type spellings that occur
Upper(text) ==
    CASE text \in {"call", "Call", "CALL"} -> "CALL"
      [] text \in {"put", "Put", "PUT"} -> "PUT"
      [] OTHER -> text

\* normalize_contract_type: None for a missing or empty value
normalize_contract_type(value) ==
    IF value = None \/ value[1] = "" THEN None ELSE Some(Upper(value[1]))

\* ASCII order of the characters that occur in dates and strikes
CharOrder == <<"-", ".", "/", "0", "1", "2", "3", "4", "5", "6", "7", "8", "9">>

CharRank(c) == CHOOSE i \in 1..Len(CharOrder) : CharOrder[i] = c

RECURSIVE TextLeq(_, _)
\* a <= b on str
TextLeq(a, b) ==
    IF Len(a) = 0 THEN TRUE
    ELSE IF Len(b) = 0 THEN FALSE
    ELSE IF a[1] = b[1] THEN TextLeq(Tail(a), Tail(b))
    ELSE CharRank(a[1]) < CharRank(b[1])

\* str(x) inside str.format: the text, or "None"
TextOf(x) == IF x = None THEN <<"N", "o", "n", "e">> ELSE x[1]

\* format_strike of an optional strike
FormatStrikeOpt(strike) ==
    IF strike = None THEN None ELSE Some(format_strike(PyFloat(strike[1])))

\* sorted(records, key=...) works on <<key, record>> pairs and is stable:
\* a pair goes behind every pair whose key is not greater
InsertByNumber(sorted, p) ==
    LET n == Cardinality({i \in 1..Len(sorted) : sorted[i][1] <= p[1]})
    IN  SubSeq(sorted, 1, n) \o <<p>> \o SubSeq(sorted, n + 1, Len(sorted))

InsertByText(sorted, p) ==
    LET n == Cardinality({i \in 1..Len(sorted) : TextLeq(sorted[i][1], p[1])})
    IN  SubSeq(sorted, 1, n) \o <<p>> \o SubSeq(sorted, n + 1, Len(sorted))

RECURSIVE SortByNumber(_)
SortByNumber(pairs) ==
    IF Len(pairs) = 0 THEN <<>>
    ELSE InsertByNumber(SortByNumber(SubSeq(pairs, 1, Len(pairs) - 1)), pairs[Len(pairs)])

RECURSIVE SortByText(_)
SortByText(pairs) ==
    IF Len(pairs) = 0 THEN <<>>
    ELSE InsertByText(SortByText(SubSeq(pairs, 1, Len(pairs) - 1)), pairs[Len(pairs)])

Second(pairs) == [i \in 1..Len(pairs) |-> pairs[i][2]]

\* key=lambda r: float(r.get("strike_price") or 0)
SortedByStrike(records) ==
    Second(SortByNumber([i \in 1..Len(records) |->
                            <<OrZero(records[i]["strike_price"]), records[i]>>]))

\* key=lambda r: r.get("expiration_date") or ""
SortedByExpiration(records) ==
    Second(SortByText([i \in 1..Len(records) |->
                          <<IF records[i]["expiration_date"] = None THEN <<>>
                            ELSE records[i]["expiration_date"][1],
                            records[i]>>]))

\* grouping keys
VerticalKey(record) ==
    <<normalize_contract_type(record["contract_type"]), record["expiration_date"]>>

\* variant: calendar groups ignore the strike
CalendarKey_type(record) ==
    <<normalize_contract_type(record["contract_type"]), None>>

CalendarKey(record) ==
    <<normalize_contract_type(record["contract_type"]), record["strike_price"]>>

GroupKey(record, strategy) ==
    IF strategy = "Calendar Spread" THEN CalendarKey(record) ELSE VerticalKey(record)

RECURSIVE GroupKeys(_, _)
\* the keys of "grouped", in the order dict.setdefault first saw them
GroupKeys(records, strategy) ==
    IF Len(records) = 0 THEN <<>>
    ELSE LET front == GroupKeys(SubSeq(records, 1, Len(records) - 1), strategy)
             key   == GroupKey(records[Len(records)], strategy)
         IN  IF \E i \in 1..Len(front) : front[i] = key THEN front
             ELSE Append(front, key)

\* grouped[key]
Group(records, strategy, key) ==
    LET InGroup(r) == GroupKey(r, strategy) = key
    IN  SelectSeq(records, InGroup)

\* variant: the difference keeps its sign
NetPremium_signed(long_leg, short_leg) ==
    LET premium_long  == option_mid_price(long_leg)
        premium_short == option_mid_price(short_leg)
    IN  IF IsNumber(premium_long) \/ IsNumber(premium_short)
        THEN Some(OrZero(premium_long) - OrZero(premium_short))
        ELSE None

NetPremium(long_leg, short_leg) ==
    LET premium_long  == option_mid_price(long_leg)
        premium_short == option_mid_price(short_leg)
    IN  IF IsNumber(premium_long) \/ IsNumber(premium_short)
        THEN Some(Abs(OrZero(premium_long) - OrZero(premium_short)))
        ELSE None

\* mean of the likelihoods that are present
SpreadLikelihood(long_leg, short_leg) ==
    LET a == option_likelihood(long_leg)
        b == option_likelihood(short_leg)
    IN  IF a # None /\ b # None THEN Some((a[1] + b[1]) \div 2)
        ELSE IF a # None THEN a
        ELSE b

Spread(strategy, ticker, expiration_label, contract_type, strike_pair, long_leg, short_leg) ==
    [strategy |-> strategy,
     ticker |-> ticker,
     expiration_label |-> expiration_label,
     contract_type |-> contract_type,
     strike_pair |-> strike_pair,
     long_leg |-> long_leg,
     short_leg |-> short_leg,
     net_premium |-> NetPremium(long_leg, short_leg),
     likelihood |-> SpreadLikelihood(long_leg, short_leg),
     greeks |-> combine_greeks(long_leg, short_leg)]

\* the candidates of one calendar group
CalendarSpreads(strategy, key, records) ==
    LET records_sorted == SortedByExpiration(records)
    IN  [i \in 1..(Len(records_sorted) - 1) |->
            LET short_leg == records_sorted[i]
                long_leg  == records_sorted[i + 1]
            IN  Spread(strategy,
                       OrStr(short_leg["ticker"], long_leg["ticker"]),
                       Some(TextOf(short_leg["expiration_date"])
                            \o TextOf(long_leg["expiration_date"])),
                       key[1],
                       FormatStrikeOpt(key[2]),
                       long_leg, short_leg)]

\* variant: the long leg is the lower strike whatever the type
VerticalLegs_calls(contract_type, lower, higher) ==
    [long_leg |-> lower, short_leg |-> higher]

\* leg assignment of a vertical pair
VerticalLegs(contract_type, lower, higher) ==
    IF contract_type = Some("PUT")
    THEN [long_leg |-> higher, short_leg |-> lower]
    ELSE [long_leg |-> lower, short_leg |-> higher]

\* variant: every pair of the sorted group, not only neighbours
VerticalPairs_all(n) == {<<i, j>> \in (1..n) \X (1..n) : i < j}

\* zip(records_sorted, records_sorted[1:]) as index pairs
VerticalPairs(n) == {<<i, i + 1>> : i \in 1..(n - 1)}

RECURSIVE PairSeq(_)
\* index pairs in the order the loop visits them
PairSeq(pairs) ==
    IF pairs = {} THEN <<>>
    ELSE LET first == CHOOSE p \in pairs :
                         \A q \in pairs : p[1] < q[1] \/ (p[1] = q[1] /\ p[2] <= q[2])
         IN  <<first>> \o PairSeq(pairs \ {first})

\* the candidates of one vertical group
VerticalSpreads(strategy, key, records) ==
    LET records_sorted == SortedByStrike(records)
        pairs == PairSeq(VerticalPairs(Len(records_sorted)))
    IN  [i \in 1..Len(pairs) |->
            LET lower  == records_sorted[pairs[i][1]]
                higher == records_sorted[pairs[i][2]]
                legs   == VerticalLegs(key[1], lower, higher)
            IN  Spread(strategy,
                       OrStr(lower["ticker"], higher["ticker"]),
                       key[2],
                       key[1],
                       Some(TextOf(FormatStrikeOpt(lower["strike_price"])) \o <<"/">>
                            \o TextOf(FormatStrikeOpt(higher["strike_price"]))),
                       legs.long_leg, legs.short_leg)]

RECURSIVE Flatten(_)
Flatten(lists) ==
    IF Len(lists) = 0 THEN <<>> ELSE lists[1] \o Flatten(Tail(lists))

\* SpreadAnalysisPage._build_spread_records
build_spread_records(option_records, strategy) ==
    LET keys == GroupKeys(option_records, strategy)
    IN  Flatten([i \in 1..Len(keys) |->
                    IF strategy = "Calendar Spread"
                    THEN CalendarSpreads(strategy, keys[i],
                                         Group(option_records, strategy, keys[i]))
                    ELSE VerticalSpreads(strategy, keys[i],
                                         Group(option_records, strategy, keys[i]))])

(* ======================================================================= *)
(* The derived analytics on their own: one call at a time                  *)
(* ======================================================================= *)
Tenth == Scale \div 10

OptDelta == {None, Some(0), Some(2 * Tenth), Some(5 * Tenth)}
OptGamma == {None, Some(2 * Tenth)}

\* legs with a greeks dict, and one leg without
GreekLegs ==
    {[greeks |-> Some(g)] :
        g \in [delta : OptDelta, gamma : OptGamma, theta : {None, Some(0)},
               vega : {None}, rho : {None, Some(-3 * Tenth)},
               iv : {None, Some(4 * Tenth)}]}
    \cup {[greeks |-> None]}

CombineGreeks ==
    /\ call = NoCall
    /\ \E long_leg \in GreekLegs, short_leg \in GreekLegs :
          call' = [fn |-> "combine_greeks", long_leg |-> long_leg,
                   short_leg |-> short_leg,
                   res |-> combine_greeks(long_leg, short_leg)]
    /\ UNCHANGED <<now, cacheFile, last, ui>>

\* the caller is done with the result
Return ==
    /\ call # NoCall
    /\ call' = NoCall
    /\ UNCHANGED <<now, cacheFile, last, ui>>

RECURSIVE LStrip(_)
LStrip(s) == IF Len(s) > 0 /\ s[1] = " " THEN LStrip(Tail(s)) ELSE s

\* str.strip() for text padded with blanks
Strip(s) == RStrip(LStrip(s), " ")

parse_float(value) ==
    LET text == Strip(value)
    IN  IF Len(text) = 0 THEN None ELSE ParseFloat(text)

\* variant: 1 itself is read as a percentage
normalize_likelihood_threshold_ge(value) ==
    LET raw == parse_float(value)
    IN  IF raw = None THEN None
        ELSE LET scaled == IF raw[1] >= Scale THEN raw[1] \div 100 ELSE raw[1]
             IN  Some(Max(0, Min(Scale, scaled)))

normalize_likelihood_threshold(value) ==
    LET raw == parse_float(value)
    IN  IF raw = None THEN None
        ELSE LET scaled == IF raw[1] > Scale THEN raw[1] \div 100 ELSE raw[1]
             IN  Some(Max(0, Min(Scale, scaled)))

MaxPercent == 120

\* text typed into a constraint entry: whole numbers, fractions in
\* hundredths below 1 and in quarters above, padded, empty and non-numeric
ThresholdTexts ==
    {IntStr(n) : n \in (-3)..MaxPercent}
    \cup {<<"0", ".">> \o NatStr(k) : k \in 10..99}
    \cup {<<"0", ".", "0">> \o NatStr(k) : k \in 0..9}
    \cup {NatStr(n) \o f : n \in 1..3, f \in {<<".", "5">>, <<".", "2", "5">>, <<".", "0">>}}
    \cup {<<"-", "0", ".", "5">>, <<" ", "5", "0", " ">>, <<>>, <<" ">>,
          <<"a", "b", "c">>, <<"5", "0", "%">>, <<"1", ".", "2", ".", "3">>}

NormalizeThreshold ==
    /\ call = NoCall
    /\ \E value \in ThresholdTexts :
          call' = [fn |-> "normalize_likelihood_threshold",
                   value |-> value,
                   res |-> normalize_likelihood_threshold(value)]
    /\ UNCHANGED <<now, cacheFile, last, ui>>

MaxChain == 3

Jan19 == <<"2", "0", "2", "4", "-", "0", "1", "-", "1", "9">>
Feb16 == <<"2", "0", "2", "4", "-", "0", "2", "-", "1", "6">>
Mar15 == <<"2", "0", "2", "4", "-", "0", "3", "-", "1", "5">>

\* a normalised contract as load_option_records returns it
Contract(contract_type, expiration_date, strike_price, bid, ask, last_, delta) ==
    [ticker |-> Some("AAPL"),
     expiration_date |-> expiration_date,
     contract_type |-> contract_type,
     strike_price |-> strike_price,
     bid |-> bid,
     ask |-> ask,
     last |-> last_,
     greeks |-> Some([delta |-> delta])]

Quarters(n) == Some((n * Scale) \div 4)

\* the option chain the spreads are built from; strikes and quotes in
\* quarters of a dollar
ChainContracts ==
    {Contract(Some("call"), Some(Jan19), Quarters(400), Quarters(4), Quarters(6), None, Some(5 * Tenth)),
     Contract(Some("CALL"), Some(Jan19), Quarters(420), None, None, Quarters(3), Some(2 * Tenth)),
     Contract(Some("call"), Some(Jan19), Quarters(440), None, None, None, None),
     Contract(Some("call"), Some(Jan19), Quarters(460), None, None, None, Some(Tenth)),
     Contract(Some("call"), Some(Jan19), None, None, None, Quarters(1), Some(14 * Tenth)),
     Contract(Some("call"), Some(Feb16), Quarters(400), Quarters(8), Quarters(10), None, Some(6 * Tenth)),
     Contract(Some("CALL"), Some(Mar15), Quarters(400), None, None, None, None),
     Contract(Some("put"), Some(Jan19), Quarters(400), None, None, Quarters(2), Some(-4 * Tenth)),
     Contract(Some("PUT"), Some(Jan19), Quarters(422), None, Quarters(12), None, Some(-6 * Tenth)),
     Contract(Some("put"), Some(Feb16), Quarters(400), None, None, None, Some(-5 * Tenth))}

\* chains of at most MaxChain contracts, each listed once, in any order
Chains ==
    UNION {{c \in [1..n -> ChainContracts] : \A i, j \in 1..n : c[i] = c[j] => i = j}
           : n \in 0..MaxChain}

Strategies == {"Naked Call", "Vertical Spread", "Calendar Spread"}

BuildSpreads ==
    /\ call = NoCall
    /\ \E option_records \in Chains, strategy \in Strategies :
          call' = [fn |-> "build_spread_records",
                   option_records |-> option_records,
                   strategy |-> strategy,
                   res |-> build_spread_records(option_records, strategy)]
    /\ UNCHANGED <<now, cacheFile, last, ui>>

\* values a source of a fallback chain can carry: absent, zero, a figure
OptFigure == {None, Some(0), Some(7)}

\* provider records whose bid and strike come through fallback chains
RawRecords ==
    {[ticker |-> Some("O:TKR"),
      bid |-> r.bid,
      last_quote |-> Some([bid |-> r.quote_bid, bp |-> r.bp]),
      details |-> Some([strike_price |-> r.strike_price, contract_type |-> Some("call")])] :
        r \in [bid : OptFigure, quote_bid : OptFigure, bp : {None, Some(0), Some(9)},
               strike_price : {None, Some(0), Some(100)}]}

NormalizeRecords ==
    /\ call = NoCall
    /\ \E record \in RawRecords :
          call' = [fn |-> "normalize_option_records",
                   records |-> <<record>>,
                   res |-> normalize_option_records(<<record>>)]
    /\ UNCHANGED <<now, cacheFile, last, ui>>

\* str.upper on the letters that occur in the tickers below
UpperChar(c) ==
    CASE c = "a" -> "A"
      [] c = "b" -> "B"
      [] c = "k" -> "K"
      [] c = "r" -> "R"
      [] OTHER -> c

\* str.isalnum on one character of an upper-cased ticker
IsAlnum(c) == c \in {"A", "B", "K", "R", "0", "1", "2", "3", "4", "5", "6", "7", "8", "9"}

\* "".join(char if char.isalnum() else "_" for char in ticker.upper())
safe_ticker_name(ticker) ==
    [i \in 1..Len(ticker) |->
        IF IsAlnum(UpperChar(ticker[i])) THEN UpperChar(ticker[i]) ELSE "_"]

\* DATA_DIR / f"{_safe_ticker_name(ticker)}.json"
cache_path(ticker) == safe_ticker_name(ticker) \o <<".", "j", "s", "o", "n">>

\* tickers as the ticker list or a saved state can hold them
Tickers ==
    {<<"B", "R", "K", ".", "B">>, <<"B", "R", "K", "-", "B">>, <<"B", "R", "K", "B">>,
     <<"B", "R", "K", "A">>, <<"b", "r", "k", "a">>, <<"B", "A">>}

\* the cache files of two tickers are located
CachePaths ==
    /\ call = NoCall
    /\ \E a \in Tickers, b \in Tickers :
          call' = [fn |-> "_cache_path", a |-> a, b |-> b,
                   path_a |-> cache_path(a), path_b |-> cache_path(b)]
    /\ UNCHANGED <<now, cacheFile, last, ui>>

NextDerived ==
    \/ CombineGreeks
    \/ BuildSpreads
    \/ NormalizeThreshold
    \/ NormalizeRecords
    \/ CachePaths
    \/ Return

SpecDerived == InitClock /\ [][NextDerived]_vars

\* the value a leg carries for one greek, missing when it has no greeks dict
LegGreek(leg, k) ==
    IF leg["greeks"] # None /\ k \in DOMAIN leg["greeks"][1]
    THEN leg["greeks"][1][k] ELSE None

\* C11: for each of delta, gamma, theta, vega, rho the combined value is
\* long - short with a missing value counted as zero when the other leg has a
\* number, and it is missing, never zero, when both legs' values are missing.
C11_CombinedGreeks ==
    call.fn = "combine_greeks" =>
        \A k \in GreekKeys :
            LET lv == LegGreek(call.long_leg, k)
                sv == LegGreek(call.short_leg, k)
                num(x) == IF x = None THEN 0 ELSE x[1]
            IN  /\ (lv = None /\ sv = None) => call.res[k] = None
                /\ (lv # None \/ sv # None) => call.res[k] = Some(num(lv) - num(sv))
                /\ call.res[k] = Some(0) => (lv # None \/ sv # None)

\* long delta missing, short delta 0.2: combined delta -0.2, and a greek
\* missing on both legs stays missing
C11_Witness ==
    /\ call.fn = "combine_greeks"
    /\ LegGreek(call.long_leg, "delta") = None
    /\ LegGreek(call.short_leg, "delta") = Some(2 * Tenth)
    /\ call.res["delta"] = Some(-2 * Tenth)
    /\ call.res["vega"] = None

(* ======================================================================= *)
(* Analysis pages: filters, constraints and the result list                *)
(* ======================================================================= *)
\* One page is followed at a time.  ui holds the page's widgets and lists;
\* expiration and strike texts are sequences of characters, type texts are
\* strings.  The order of a dropdown's values is not kept, only the values.

Pages == {"AnalysisPage", "CallPutAnalysisPage", "SpreadAnalysisPage"}

Dimensions == {"expiration", "strike", "type"}

AllText == <<"A", "l", "l">>

\* the "All" entry of a dropdown
AllOf(key) == IF key = "type" THEN "All" ELSE AllText

\* the StringVar behind a dropdown
Var(p, key) ==
    CASE key = "expiration" -> p.expiration_var
      [] key = "strike" -> p.strike_var
      [] OTHER -> p.type_var

SetVar(p, key, value) ==
    CASE key = "expiration" -> [p EXCEPT !.expiration_var = value]
      [] key = "strike" -> [p EXCEPT !.strike_var = value]
      [] OTHER -> [p EXCEPT !.type_var = value]

\* truthiness of an optional text
Truthy(x, key) == x # None /\ x[1] # (IF key = "type" THEN "" ELSE <<>>)

\* what a record shows in one dimension
FilterLabel(page, record, key) ==
    IF page = "SpreadAnalysisPage"
    THEN CASE key = "expiration" -> record["expiration_label"]
           [] key = "strike" -> record["strike_pair"]
           [] OTHER -> normalize_contract_type(record["contract_type"])
    ELSE CASE key = "expiration" -> record["expiration_date"]
           [] key = "strike" -> FormatStrikeOpt(record["strike_price"])
           [] OTHER -> normalize_contract_type(record["contract_type"])

get_filter_value(value, key) == IF value = AllOf(key) THEN None ELSE Some(value)

CurrentFilters(p) == [key \in Dimensions |-> get_filter_value(Var(p, key), key)]

record_matches_filters(page, record, filters) ==
    \A key \in Dimensions :
        ~(Truthy(filters[key], key) /\ filters[key] # FilterLabel(page, record, key))

\* variant: a record without the needed number passes the constraint
record_matches_constraints_open(page, max_loss_var, likelihood_var, record) ==
    LET max_loss == parse_float(max_loss_var)
        min_likelihood == normalize_likelihood_threshold(likelihood_var)
        premium == IF page = "SpreadAnalysisPage" THEN Get(record, "net_premium")
                   ELSE Get(record, "premium")
        likelihood == Get(record, "likelihood")
    IN  IF page = "AnalysisPage" THEN TRUE
        ELSE IF max_loss # None /\ IsNumber(premium) /\ premium[1] > max_loss[1]
        THEN FALSE
        ELSE IF min_likelihood # None /\ IsNumber(likelihood)
                /\ likelihood[1] < min_likelihood[1]
        THEN FALSE
        ELSE TRUE

\* the Analysis page has no constraints: every record is eligible there
record_matches_constraints(page, max_loss_var, likelihood_var, record) ==
    LET max_loss == parse_float(max_loss_var)
        min_likelihood == normalize_likelihood_threshold(likelihood_var)
        premium == IF page = "SpreadAnalysisPage" THEN Get(record, "net_premium")
                   ELSE Get(record, "premium")
        likelihood == Get(record, "likelihood")
    IN  IF page = "AnalysisPage" THEN TRUE
        ELSE IF max_loss # None /\ (~IsNumber(premium) \/ premium[1] > max_loss[1])
        THEN FALSE
        ELSE IF min_likelihood # None
                /\ (~IsNumber(likelihood) \/ likelihood[1] < min_likelihood[1])
        THEN FALSE
        ELSE TRUE

EligibleRecords(p) ==
    LET Eligible(record) ==
            record_matches_constraints(p.page, p.max_loss_var, p.likelihood_var, record)
    IN  SelectSeq(p.all_records, Eligible)

\* variant: each list holds the values of all the records, whatever the
\* other selections are
compute_filter_options_all(page, records, current) ==
    [key \in Dimensions |->
        {FilterLabel(page, records[i], key)[1] :
            i \in {j \in 1..Len(records) :
                      Truthy(FilterLabel(page, records[j], key), key)}}]

\* the values of each dimension among the records that match the other two
compute_filter_options(page, records, current) ==
    [key \in Dimensions |->
        {FilterLabel(page, records[i], key)[1] :
            i \in {j \in 1..Len(records) :
                      /\ record_matches_filters(page, records[j],
                                                [current EXCEPT ![key] = None])
                      /\ Truthy(FilterLabel(page, records[j], key), key)}}]

\* _apply_option_filters, _apply_spread_filters
apply_filters(p, eligible_records) ==
    LET filters == CurrentFilters(p)
        Matches(record) == record_matches_filters(p.page, record, filters)
        records == SelectSeq(eligible_records, Matches)
    IN  [p EXCEPT !.records = records,
                  !.selected = IF Len(records) = 0 THEN None ELSE Some(records[1])]

\* variant: a selection missing from its list is kept
KeepOrReset_keep(value, values, key) == value

\* "if var.get() not in values: var.set('All')"
KeepOrReset(value, values, key) == IF value \in values THEN value ELSE AllOf(key)

\* "if reset:" at the head of the refresh; the Call/Put page keeps a type
\* of CALL or PUT
ResetSelections(p, reset) ==
    IF reset
    THEN [p EXCEPT !.expiration_var = AllText,
                   !.strike_var = AllText,
                   !.type_var = IF p.page = "CallPutAnalysisPage"
                                   /\ p.type_var \in {"CALL", "PUT"}
                                THEN p.type_var ELSE "All"]
    ELSE p

\* the loop over the three dropdowns, then the result list; event notes which
\* handler asked for the refresh and what the selections were when the loop
\* began
SetDropdowns(p, eligible_records, values, op, key) ==
    apply_filters(
        [p EXCEPT !.values = values,
                  !.expiration_var = KeepOrReset(@, values["expiration"], "expiration"),
                  !.strike_var = KeepOrReset(@, values["strike"], "strike"),
                  !.type_var = KeepOrReset(@, values["type"], "type"),
                  !.event = [op |-> op, key |-> key,
                             before |-> [expiration |-> p.expiration_var,
                                         strike |-> p.strike_var,
                                         type |-> p.type_var]]],
        eligible_records)

\* values = ["All"] + options[key]
DropdownValues(options) == [k \in Dimensions |-> {AllOf(k)} \cup options[k]]

\* the refresh once the eligible records are known
RefreshEligible(p, eligible_records, op, key) ==
    SetDropdowns(p, eligible_records,
                 DropdownValues(compute_filter_options(p.page, eligible_records,
                                                       CurrentFilters(p))),
                 op, key)

\* the refresh after the optional reset
RefreshSelections(p, op, key) == RefreshEligible(p, EligibleRecords(p), op, key)

\* _refresh_option_filters, _refresh_spread_filters
refresh_filters(p, reset, op, key) ==
    RefreshSelections(ResetSelections(p, reset), op, key)

\* the page as its constructor leaves it
NewPage(page) ==
    [page |-> page,
     strategy |-> "Naked Call",
     all_records |-> <<>>,
     records |-> <<>>,
     selected |-> None,
     expiration_var |-> AllText,
     strike_var |-> AllText,
     type_var |-> "All",
     max_loss_var |-> <<>>,
     likelihood_var |-> <<>>,
     values |-> [k \in Dimensions |-> {}],
     event |-> [op |-> "none", key |-> "",
                before |-> [expiration |-> AllText, strike |-> AllText, type |-> "All"]]]

\* the strategies that lead to a page (go_to_strategy); the Analysis page
\* itself does not look at the strategy
StrategiesOf(page) ==
    CASE page = "CallPutAnalysisPage" -> {"Naked Call", "Naked Put"}
      [] page = "SpreadAnalysisPage" -> {"Vertical Spread", "Calendar Spread"}
      [] OTHER -> {"Naked Call"}

\* the records a page works on, made from the contracts of a load
WorkingRecords(page, strategy, option_records) ==
    CASE page = "CallPutAnalysisPage" ->
            [i \in 1..Len(option_records) |->
                Update(option_records[i],
                       [premium |-> option_mid_price(option_records[i]),
                        likelihood |-> option_likelihood(option_records[i])])]
      [] page = "SpreadAnalysisPage" -> build_spread_records(option_records, strategy)
      [] OTHER -> option_records

\* type_var as load_market_data sets it from the strategy
PresetType(p, strategy) ==
    CASE p.page # "CallPutAnalysisPage" -> p.type_var
      [] strategy = "Naked Call" -> "CALL"
      [] strategy = "Naked Put" -> "PUT"
      [] OTHER -> "All"

\* the tail of load_market_data once the contracts are there
load_market_data(p, strategy, option_records) ==
    refresh_filters([p EXCEPT !.strategy = strategy,
                              !.all_records = WorkingRecords(p.page, strategy, option_records),
                              !.type_var = PresetType(p, strategy)],
                    TRUE, "load", "")

MaxRecords == 3

\* contracts of the provider's chain, in the order it lists them
PageList ==
    <<Contract(Some("CALL"), Some(Jan19), Quarters(420), None, None, Quarters(3), Some(2 * Tenth)),
      Contract(Some("call"), Some(Jan19), Quarters(442), None, None, None, Some(6 * Tenth)),
      Contract(Some("call"), Some(Jan19), Quarters(400), Quarters(4), Quarters(6), None, Some(5 * Tenth)),
      Contract(Some("call"), Some(Feb16), Quarters(400), None, None, Quarters(10), None),
      Contract(Some("CALL"), Some(Mar15), Quarters(400), None, None, Quarters(2), Some(8 * Tenth)),
      Contract(Some("put"), Some(Jan19), Quarters(400), None, None, Quarters(2), Some(-6 * Tenth))>>

\* a load returns a run of at most MaxRecords consecutive contracts
PageChains ==
    {SubSeq(PageList, i, i + n - 1) :
        <<i, n>> \in {q \in (1..Len(PageList)) \X (0..MaxRecords) :
                         q[1] + q[2] - 1 <= Len(PageList)}}

\* text typed into the max-loss entry and into the likelihood entry
MaxLossTexts == {<<>>, <<"1">>}

LikelihoodTexts == {<<>>, <<"5", "0">>}

InitUI ==
    /\ now = [day |-> 1, hour |-> 0, sub |-> 0]
    /\ cacheFile = File("absent", EmptyDict)
    /\ last = NoRequest
    /\ call = NoCall
    /\ ui \in {NewPage(page) : page \in Pages}

\* show_frame -> refresh -> load_market_data: without a key or a ticker, or
\* on a provider error, the lists and selections are left as they are
\* (strategy is the strategy the records on hand were loaded for)
ShowPage ==
    /\ \/ ui' = ui
       \/ \E strategy \in StrategiesOf(ui.page), option_records \in PageChains :
             ui' = load_market_data(ui, strategy, option_records)
    /\ UNCHANGED <<now, cacheFile, last, call>>

\* <<ComboboxSelected>>: the dropdowns are read-only, so the new value is one
\* of the values on offer
OnFilterChange ==
    /\ \E key \in Dimensions :
          \E value \in ui.values[key] :
              ui' = refresh_filters(SetVar(ui, key, value), FALSE, "filter", key)
    /\ UNCHANGED <<now, cacheFile, last, call>>

\* <KeyRelease> in one of the two constraint entries
OnKeyRelease ==
    /\ ui.page # "AnalysisPage"
    /\ \/ \E text \in MaxLossTexts :
             ui' = refresh_filters([ui EXCEPT !.max_loss_var = text],
                                   FALSE, "constraint", "")
       \/ \E text \in LikelihoodTexts :
             ui' = refresh_filters([ui EXCEPT !.likelihood_var = text],
                                   FALSE, "constraint", "")
    /\ UNCHANGED <<now, cacheFile, last, call>>

\* on_option_select, on_spread_select
OnOptionSelect ==
    /\ \E index \in 0..(Len(ui.records) - 1) :
          ui' = [ui EXCEPT !.selected = Some(ui.records[index + 1]),
                           !.event = [@ EXCEPT !.op = "select", !.key = ""]]
    /\ UNCHANGED <<now, cacheFile, last, call>>

NextUI ==
    \/ ShowPage
    \/ OnFilterChange
    \/ OnKeyRelease
    \/ OnOptionSelect

SpecUI == InitUI /\ [][NextUI]_vars

(* ------------------ MassiveApiClient.fetch_option_snapshots ------------ *)
\* one provider snapshot flattened into the contract shape
normalize_snapshot(snapshot) ==
    LET details    == GetDict(snapshot, "details")
        day        == GetDict(snapshot, "day")
        last_trade == GetDict(snapshot, "last_trade")
        last_quote == GetDict(snapshot, "last_quote")
        implied_vol == Get(snapshot, "implied_volatility")
        greeks ==
            IF implied_vol # None /\ "iv" \notin DOMAIN GetDict(snapshot, "greeks")
            THEN SetItem(GetDict(snapshot, "greeks"), "iv", implied_vol)
            ELSE GetDict(snapshot, "greeks")
        volume ==
            IF Get(snapshot, "volume") # None THEN Get(snapshot, "volume")
            ELSE OrNum(Get(day, "volume"), Get(day, "v"))
        open_interest ==
            IF Get(snapshot, "open_interest") # None THEN Get(snapshot, "open_interest")
            ELSE Get(details, "open_interest")
    IN  [ticker |-> OrStr(Get(details, "ticker"), Get(snapshot, "ticker")),
         expiration_date |-> Get(details, "expiration_date"),
         contract_type |-> Get(details, "contract_type"),
         strike_price |-> Get(details, "strike_price"),
         greeks |-> Some(greeks),
         implied_volatility |-> implied_vol,
         volume |-> volume,
         open_interest |-> open_interest,
         day_close |->
             OrNum(Get(snapshot, "close"), OrNum(Get(day, "close"), Get(day, "c"))),
         bid |->
             OrNum(Get(last_quote, "bid"),
                   OrNum(Get(last_quote, "bid_price"), Get(last_quote, "bp"))),
         ask |->
             OrNum(Get(last_quote, "ask"),
                   OrNum(Get(last_quote, "ask_price"), Get(last_quote, "ap"))),
         last |-> OrNum(Get(last_trade, "price"), Get(last_trade, "p"))]

normalize_option_snapshots(snapshots) ==
    [i \in 1..Len(snapshots) |-> normalize_snapshot(snapshots[i])]

MaxPages == 3        \* a fetch follows at most MaxPages - 1 next_url links

\* two provider snapshots: one quoted through the short keys with zeros,
\* one quoted through the long keys
SnapshotA ==
    [details |-> Some([ticker |-> Some("O:A"), contract_type |-> Some("call"),
                       expiration_date |-> Some("2024-01-19"),
                       strike_price |-> Some(0), open_interest |-> Some(0)]),
     day |-> Some([v |-> Some(0), c |-> Some(0)]),
     last_quote |-> Some([bp |-> Some(0), ap |-> Some(2)]),
     last_trade |-> Some([p |-> Some(0)]),
     implied_volatility |-> Some(0)]

SnapshotB ==
    [ticker |-> Some("O:B"),
     details |-> Some([contract_type |-> Some("put"),
                       expiration_date |-> Some("2024-02-16"),
                       strike_price |-> Some(100)]),
     greeks |-> Some([delta |-> Some(0), iv |-> Some(3)]),
     implied_volatility |-> Some(4),
     volume |-> Some(0), open_interest |-> Some(6), close |-> Some(5),
     last_quote |-> Some([bid |-> Some(0), bid_price |-> Some(1), ask |-> Some(2)]),
     last_trade |-> Some([price |-> Some(3)])]

\* data.get("results", []) of one answered page
PageResults == {<<>>, <<SnapshotA>>, <<SnapshotB, SnapshotA>>}

\* data.get("next_url") of one answered page
NextUrls ==
    {None, Some(""), Some("https://p/o"), Some("https://p/o?cursor=c"),
     Some("https://p/o?cursor=c&apiKey=k")}

PageAnswers == [results : PageResults, next_url : NextUrls]

\* what urlopen, response.read or json.loads can raise
RequestFailures == {"HTTPError", "URLError", "TimeoutError", "JSONDecodeError"}

\* "while next_url": None and "" end the loop
HasNextUrl(next_url) == next_url # None /\ next_url[1] # ""

\* the URL requested for a next_url: apiKey is appended when it is not there
WithApiKey(url) ==
    CASE url = "https://p/o" -> "https://p/o?apiKey=k"
      [] url = "https://p/o?cursor=c" -> "https://p/o?cursor=c&apiKey=k"
      [] OTHER -> url

\* variant: a page's contracts replace what was accumulated
Extend_replace(results, data) == normalize_option_snapshots(data.results)

\* results.extend(self._normalize_option_snapshots(data.get("results", [])))
Extend(results, data) == results \o normalize_option_snapshots(data.results)

FirstUrl == "/v3/snapshot/options/TKR?limit=250&apiKey=k"

\* one request of the fetch: it raises, or its page is accumulated
RequestPage(results, pages, requested, url, failure, data) ==
    IF failure # "ok"
    THEN [fn |-> "fetch_option_snapshots", pc |-> "raised", outcome |-> failure,
          results |-> results, next_url |-> None, pages |-> pages,
          requested |-> Append(requested, url), res |-> None]
    ELSE [fn |-> "fetch_option_snapshots", pc |-> "while", outcome |-> "none",
          results |-> Extend(results, data), next_url |-> data.next_url,
          pages |-> Append(pages, data),
          requested |-> Append(requested, url), res |-> None]

\* the call up to the first evaluation of the loop condition
FetchOptionSnapshots ==
    /\ call = NoCall
    /\ \E failure \in {"ok"} \cup RequestFailures, data \in PageAnswers :
          call' = RequestPage(<<>>, <<>>, <<>>, FirstUrl, failure, data)
    /\ UNCHANGED <<now, cacheFile, last, ui>>

\* one iteration of the loop
FollowNextUrl ==
    /\ call.fn = "fetch_option_snapshots"
    /\ call.pc = "while"
    /\ HasNextUrl(call.next_url)
    /\ Len(call.pages) < MaxPages
    /\ \E failure \in {"ok"} \cup RequestFailures, data \in PageAnswers :
          call' = RequestPage(call.results, call.pages, call.requested,
                              WithApiKey(call.next_url[1]), failure, data)
    /\ UNCHANGED <<now, cacheFile, last, ui>>

\* the loop condition is false: return results
ReturnResults ==
    /\ call.fn = "fetch_option_snapshots"
    /\ call.pc = "while"
    /\ ~HasNextUrl(call.next_url)
    /\ call' = [call EXCEPT !.pc = "returned", !.res = Some(call.results)]
    /\ UNCHANGED <<now, cacheFile, last, ui>>

\* the except clauses around a provider call in the pages' load_market_data:
\* the title of the dialog shown, "none" when the exception passes both
ErrorDialog(failure) ==
    CASE failure = "HTTPError" -> "API Error"
      [] failure = "URLError" -> "Connection Error"
      [] OTHER -> "none"

\* the page's load_market_data receives the exception of the fetch
ShowError ==
    /\ call.fn = "fetch_option_snapshots"
    /\ call.pc = "raised"
    /\ call' = [fn |-> "load_market_data", pc |-> "failed", outcome |-> call.outcome,
                requested |-> call.requested, dialog |-> ErrorDialog(call.outcome)]
    /\ UNCHANGED <<now, cacheFile, last, ui>>

\* the request is over: the page has the list or has handled the failure
FetchOver ==
    /\ \/ call.fn = "fetch_option_snapshots" /\ call.pc = "returned"
       \/ call.fn = "load_market_data"
    /\ call' = NoCall
    /\ UNCHANGED <<now, cacheFile, last, ui>>

NextFetch ==
    \/ FetchOptionSnapshots
    \/ FollowNextUrl
    \/ ReturnResults
    \/ ShowError
    \/ FetchOver

SpecFetch == InitClock /\ [][NextFetch]_vars

(* ----------------------------- spreads --------------------------------- *)
IsBuild == call.fn = "build_spread_records"

IsVertical == IsBuild /\ call.strategy # "Calendar Spread"

IsCalendar == IsBuild /\ call.strategy = "Calendar Spread"

\* the strike a contract is ordered by
StrikeOf(record) == OrZero(record["strike_price"])

\* the contract type in capitals
TypeOf(record) == normalize_contract_type(record["contract_type"])

\* vertical partition of a contract
SamePartition(a, b) ==
    TypeOf(a) = TypeOf(b) /\ a["expiration_date"] = b["expiration_date"]

\* the contracts of the chain in the vertical partition of contract a
PartitionOf(chain, a) == {i \in 1..Len(chain) : SamePartition(chain[i], a)}

\* the partitions of a chain as sets of positions
Partitions(chain) == {PartitionOf(chain, chain[i]) : i \in 1..Len(chain)}

RECURSIVE SumSizes(_)
\* sum of max(N - 1, 0) over a set of partitions
SumSizes(parts) ==
    IF parts = {} THEN 0
    ELSE LET part == CHOOSE q \in parts : TRUE
         IN  Max(Cardinality(part) - 1, 0) + SumSizes(parts \ {part})

\* two contracts of one partition with no strike of the partition between them
AdjacentStrikes(chain, i, j) ==
    /\ SamePartition(chain[i], chain[j])
    /\ StrikeOf(chain[i]) < StrikeOf(chain[j])
    /\ \A m \in PartitionOf(chain, chain[i]) :
          ~(StrikeOf(chain[i]) < StrikeOf(chain[m]) /\ StrikeOf(chain[m]) < StrikeOf(chain[j]))

\* C12: for a strategy other than "Calendar Spread" the chain is partitioned by
\* (contract type in capitals, expiration date); a partition of N contracts
\* yields N - 1 candidates, one for each pair of contracts adjacent in ascending
\* strike order and none for any other pair, so the total is the sum of
\* max(N - 1, 0) over the partitions.
C12_VerticalAdjacentPairs ==
    IsVertical =>
        LET chain == call.option_records
            res   == call.res
        IN  /\ Len(res) = SumSizes(Partitions(chain))
            /\ \A i, j \in 1..Len(chain) :
                  (AdjacentStrikes(chain, i, j) \/ AdjacentStrikes(chain, j, i)) <=>
                      \E n \in 1..Len(res) :
                          {res[n].long_leg, res[n].short_leg} = {chain[i], chain[j]}
            /\ \A n \in 1..Len(res) :
                  /\ SamePartition(res[n].long_leg, res[n].short_leg)
                  /\ res[n].contract_type = TypeOf(res[n].long_leg)
                  /\ res[n].expiration_label = res[n].long_leg["expiration_date"]

\* C12 witness: a partition of three calls at strikes 100, 105 and 110 gave
\* exactly the two neighbouring pairs
C12_Witness ==
    /\ IsVertical
    /\ Len(call.option_records) = 3
    /\ Cardinality(Partitions(call.option_records)) = 1
    /\ Len(call.res) = 2
    /\ {StrikeOf(call.option_records[i]) : i \in 1..3} = {100 * Scale, 105 * Scale, 110 * Scale}
    /\ \A n \in 1..2 :
          Abs(StrikeOf(call.res[n].long_leg) - StrikeOf(call.res[n].short_leg)) = 5 * Scale

\* the two legs of a candidate by strike
LowerLeg(spread) ==
    IF StrikeOf(spread.long_leg) <= StrikeOf(spread.short_leg)
    THEN spread.long_leg ELSE spread.short_leg

HigherLeg(spread) ==
    IF StrikeOf(spread.long_leg) <= StrikeOf(spread.short_leg)
    THEN spread.short_leg ELSE spread.long_leg

\* C13: in a vertical candidate of a PUT partition the long leg is the
\* higher strike and the short leg the lower one; for every other type the
\* long leg is the lower strike and the short leg the higher one; strike_pair
\* is format_strike(lower)/format_strike(higher) whatever the type.
C13_VerticalLegs ==
    IsVertical =>
        \A n \in 1..Len(call.res) :
            LET spread == call.res[n]
            IN  /\ StrikeOf(spread.long_leg) # StrikeOf(spread.short_leg)
                /\ (spread.contract_type = Some("PUT"))
                      => StrikeOf(spread.long_leg) > StrikeOf(spread.short_leg)
                /\ (spread.contract_type # Some("PUT"))
                      => StrikeOf(spread.long_leg) < StrikeOf(spread.short_leg)
                /\ spread.strike_pair =
                      Some(TextOf(FormatStrikeOpt(LowerLeg(spread)["strike_price"]))
                           \o <<"/">>
                           \o TextOf(FormatStrikeOpt(HigherLeg(spread)["strike_price"])))

\* C13 witness: puts at 100 and 105.5 gave one candidate, long 105.5 and
\* short 100, labelled 100/105.5
C13_Witness ==
    /\ IsVertical
    /\ Len(call.res) = 1
    /\ call.res[1].contract_type = Some("PUT")
    /\ call.res[1].long_leg["strike_price"] = Quarters(422)
    /\ call.res[1].short_leg["strike_price"] = Quarters(400)
    /\ call.res[1].strike_pair = Some(<<"1", "0", "0", "/", "1", "0", "5", ".", "5">>)

\* the expiration a contract is ordered by
ExpirationOf(record) ==
    IF record["expiration_date"] = None THEN <<>> ELSE record["expiration_date"][1]

\* calendar partition of a contract
SameCalendarPartition(a, b) ==
    TypeOf(a) = TypeOf(b) /\ a["strike_price"] = b["strike_price"]

Earlier(a, b) ==
    ExpirationOf(a) # ExpirationOf(b) /\ TextLeq(ExpirationOf(a), ExpirationOf(b))

\* C14: for "Calendar Spread" the chain is partitioned by (contract type,
\* strike), each partition is ordered by ascending expiration date, and there
\* is one candidate for each adjacent pair, its short leg the earlier and its
\* long leg the later expiration; both legs have the same type and strike.
C14_CalendarPairs ==
    IsCalendar =>
        LET chain == call.option_records
            res   == call.res
        IN  /\ \A n \in 1..Len(res) :
                  /\ SameCalendarPartition(res[n].long_leg, res[n].short_leg)
                  /\ Earlier(res[n].short_leg, res[n].long_leg)
                  /\ \E i, j \in 1..Len(chain) :
                        chain[i] = res[n].short_leg /\ chain[j] = res[n].long_leg
                  /\ \A m \in 1..Len(chain) :
                        SameCalendarPartition(chain[m], res[n].short_leg)
                            => ~(Earlier(res[n].short_leg, chain[m])
                                 /\ Earlier(chain[m], res[n].long_leg))
            /\ \A i, j \in 1..Len(chain) :
                  (/\ SameCalendarPartition(chain[i], chain[j])
                   /\ Earlier(chain[i], chain[j])
                   /\ \A m \in 1..Len(chain) :
                         SameCalendarPartition(chain[m], chain[i])
                             => ~(Earlier(chain[i], chain[m]) /\ Earlier(chain[m], chain[j])))
                  => Cardinality({n \in 1..Len(res) :
                                     res[n].short_leg = chain[i]
                                     /\ res[n].long_leg = chain[j]}) = 1

\* C14 witness: calls at strike 100 expiring 2024-02-16 and 2024-01-19,
\* listed in that order, gave one candidate, short the January contract
C14_Witness ==
    /\ IsCalendar
    /\ Len(call.option_records) = 2
    /\ call.option_records[1]["expiration_date"] = Some(Feb16)
    /\ Len(call.res) = 1
    /\ call.res[1].short_leg["expiration_date"] = Some(Jan19)
    /\ call.res[1].long_leg["expiration_date"] = Some(Feb16)
    /\ call.res[1].strike_pair = Some(<<"1", "0", "0">>)

\* C15: net_premium of a candidate of either kind is missing exactly when the
\* mid-prices of both legs are missing; otherwise it is the absolute
\* difference of the two mid-prices, a missing one counted as zero, and so is
\* never negative.
C15_NetPremium ==
    IsBuild =>
        \A n \in 1..Len(call.res) :
            LET spread    == call.res[n]
                mid_long  == option_mid_price(spread.long_leg)
                mid_short == option_mid_price(spread.short_leg)
            IN  /\ (spread.net_premium = None) <=> (mid_long = None /\ mid_short = None)
                /\ spread.net_premium # None =>
                      /\ spread.net_premium[1] = Abs(OrZero(mid_long) - OrZero(mid_short))
                      /\ spread.net_premium[1] >= 0

\* C15 witness: one build gave a candidate whose long leg is the cheaper
\* one, so that the sign had to be dropped, and a candidate with a mid-price
\* on one leg only
C15_Witness ==
    /\ IsBuild
    /\ \E n \in 1..Len(call.res) :
          /\ option_mid_price(call.res[n].long_leg) # None
          /\ option_mid_price(call.res[n].short_leg) # None
          /\ option_mid_price(call.res[n].long_leg)[1] < option_mid_price(call.res[n].short_leg)[1]
          /\ call.res[n].net_premium[1] > 0
    /\ \E n \in 1..Len(call.res) :
          /\ option_mid_price(call.res[n].long_leg) # None
          /\ option_mid_price(call.res[n].short_leg) = None
          /\ call.res[n].net_premium = option_mid_price(call.res[n].long_leg)

(* ---------------------------- thresholds ------------------------------- *)
IsThreshold == call.fn = "normalize_likelihood_threshold"

\* the text is a decimal number, blanks around it aside
IsNumeric(value) ==
    LET text == Strip(value)
        body == IF Len(text) > 0 /\ text[1] = "-" THEN Tail(text) ELSE text
    IN  /\ \E i \in 1..Len(body) : IsDigit(body[i])
        /\ \A i \in 1..Len(body) : IsDigit(body[i]) \/ body[i] = "."
        /\ Cardinality({i \in 1..Len(body) : body[i] = "."}) <= 1

\* C16: a numeric input v is mapped to v/100 when v > 1 and to v otherwise,
\* clamped to [0,1]: "50" and "0.5" give 0.5, a negative input gives 0, an
\* input above 100 gives 1; empty or non-numeric text gives no threshold.
C16_ThresholdNormalised ==
    IsThreshold =>
        LET value == call.value
            v     == ParseFloat(Strip(value))
        IN  /\ ~IsNumeric(value) => call.res = None
            /\ IsNumeric(value) =>
                  /\ v # None
                  /\ call.res # None
                  /\ 0 <= call.res[1] /\ call.res[1] <= Scale
                  /\ v[1] > Scale /\ v[1] <= 100 * Scale => 100 * call.res[1] = v[1]
                  /\ v[1] >= 0 /\ v[1] <= Scale => call.res[1] = v[1]
                  /\ v[1] < 0 => call.res[1] = 0
                  /\ v[1] > 100 * Scale => call.res[1] = Scale
            /\ value = <<"5", "0">> => call.res = Some(Scale \div 2)
            /\ value = <<"0", ".", "5">> => call.res = Some(Scale \div 2)
            /\ value = <<"1">> => call.res = Some(Scale)

\* C16 witness: "50" was normalised to 0.5
C16_Witness ==
    /\ IsThreshold
    /\ call.value = <<"5", "0">>
    /\ call.res = Some(Scale \div 2)

(* ------------------------------ pages ---------------------------------- *)
HasConstraints == ui.page \in {"CallPutAnalysisPage", "SpreadAnalysisPage"}

\* the numbers the two constraints look at
PremiumOf(record) ==
    IF ui.page = "SpreadAnalysisPage" THEN record["net_premium"] ELSE record["premium"]

MaxLossSet == parse_float(ui.max_loss_var) # None

MinLikelihoodSet == normalize_likelihood_threshold(ui.likelihood_var) # None

\* eligibility as the statement puts it
IsEligible(record) ==
    /\ \/ ~MaxLossSet
       \/ /\ PremiumOf(record) # None
          /\ PremiumOf(record)[1] <= parse_float(ui.max_loss_var)[1]
    /\ \/ ~MinLikelihoodSet
       \/ /\ record["likelihood"] # None
          /\ record["likelihood"][1]
                >= normalize_likelihood_threshold(ui.likelihood_var)[1]

\* the record matches the three selections as they stand
MatchesSelections(record) ==
    \A key \in Dimensions :
        \/ Var(ui, key) = AllOf(key)
        \/ FilterLabel(ui.page, record, key) = Some(Var(ui, key))

\* C17: on the Call/Put and Spread pages the result list holds exactly the
\* records that are eligible (max-loss unset or premium a number not above
\* it, min-likelihood unset or likelihood a number not below it) and match the
\* selections; a record without premium, or without likelihood, is never
\* listed while that constraint is set.
C17_EligibleFailClosed ==
    HasConstraints =>
        LET Shown(record) == IsEligible(record) /\ MatchesSelections(record)
        IN  /\ ui.records = SelectSeq(ui.all_records, Shown)
            /\ \A i \in 1..Len(ui.records) :
                  /\ MaxLossSet => PremiumOf(ui.records[i]) # None
                  /\ MinLikelihoodSet => ui.records[i]["likelihood"] # None

\* C17 witness: with all selections at "All" and a max-loss typed in, a
\* record without premium is held but not listed, while another one is
C17_Witness ==
    /\ HasConstraints
    /\ MaxLossSet
    /\ \A key \in Dimensions : Var(ui, key) = AllOf(key)
    /\ \E i \in 1..Len(ui.all_records) :
          /\ PremiumOf(ui.all_records[i]) = None
          /\ \A j \in 1..Len(ui.records) : ui.records[j] # ui.all_records[i]
    /\ Len(ui.records) > 0

\* the page after the user picks value in the dropdown of dimension key
AfterPick(key, value) == refresh_filters(SetVar(ui, key, value), FALSE, "filter", key)

\* C18: whatever loads, filter changes and constraint edits came before,
\* picking any value other than "All" that a dropdown offers, the other two
\* selections staying as they are, gives a result list that is not empty.
C18_OfferedValueHasResults ==
    \A key \in Dimensions :
        \A value \in ui.values[key] \ {AllOf(key)} :
            /\ Len(AfterPick(key, value).records) > 0
            /\ Var(AfterPick(key, value), key) = value
            /\ \A other \in Dimensions \ {key} :
                  Var(AfterPick(key, value), other) = Var(ui, other)

\* C18 witness: after a constraint edit one dimension is narrowed to a value
\* and another dimension still offers a value to pick
C18_Witness ==
    /\ ui.event.op = "constraint"
    /\ ui.expiration_var # AllText
    /\ ui.values["strike"] \ {AllText} # {}
    /\ Len(ui.all_records) > Len(ui.records)

\* C19: after a refresh every selection is "All" or one of the values its
\* dropdown offers: a selection the new list lacks has been reset to "All",
\* a selection the new list holds has been left as it was.
C19_SelectionOffered ==
    \A key \in Dimensions :
        /\ Var(ui, key) = AllOf(key) \/ Var(ui, key) \in ui.values[key]
        /\ ui.event.before[key] \in ui.values[key] => Var(ui, key) = ui.event.before[key]
        /\ ui.event.before[key] \notin ui.values[key] => Var(ui, key) = AllOf(key)

\* C19 witness: a constraint edit took the selected strike off the list and
\* the strike selection fell back to "All"
C19_Witness ==
    /\ ui.event.op = "constraint"
    /\ ui.event.before["strike"] # AllText
    /\ ui.event.before["strike"] \notin ui.values["strike"]
    /\ ui.strike_var = AllText
    /\ Len(ui.records) > 0

\* ticker + expiration + type + strike of a listed record
Identity(record) ==
    <<record["ticker"],
      FilterLabel(ui.page, record, "expiration"),
      FilterLabel(ui.page, record, "type"),
      IF ui.page = "SpreadAnalysisPage" THEN record["strike_pair"]
      ELSE record["strike_price"]>>

\* C20 as stated: when a filter change leaves the record selected before in
\* the result list, that record is still the selected one afterwards.
C20_Original ==
    [][(/\ ui'.event.op = "filter"
        /\ ui.selected # None
        /\ \E i \in 1..Len(ui'.records) :
              Identity(ui'.records[i]) = Identity(ui.selected[1]))
       => (/\ ui'.selected # None
           /\ Identity(ui'.selected[1]) = Identity(ui.selected[1]))]_vars

(* ---------------------------- normalizer ------------------------------- *)
IsNormalize == call.fn = "normalize_option_records"

RECURSIVE FirstPresent(_)
\* the first value of a chain of sources that is present, zero included
FirstPresent(chain) ==
    IF Len(chain) = 0 THEN None
    ELSE IF chain[1] # None THEN chain[1]
    ELSE FirstPresent(Tail(chain))

\* the sources of bid and of strike_price, in chain order
BidChain(record) ==
    <<Get(record, "bid"),
      Get(GetDict(record, "last_quote"), "bid"),
      Get(GetDict(record, "last_quote"), "bid_price"),
      Get(GetDict(record, "last_quote"), "bp")>>

StrikeChain(record) ==
    <<Get(record, "strike_price"), Get(GetDict(record, "details"), "strike_price")>>

\* C21 as stated: a field resolved through a fallback chain takes the value
\* of the first source that is present, a zero counting as present; it is
\* missing only when every source is missing.
C21_Original ==
    IsNormalize =>
        /\ call.res[1]["bid"] = FirstPresent(BidChain(call.records[1]))
        /\ call.res[1]["strike_price"] = FirstPresent(StrikeChain(call.records[1]))

(* --------------------------- stored contract type ---------------------- *)
UpperCased(records) ==
    \A i \in 1..Len(records) :
        LET contract_type == Get(records[i], "contract_type")
        IN  contract_type = None \/ contract_type[1] = Upper(contract_type[1])

\* C22 as stated: every contract of the working set returned by a request
\* and every contract of the persisted payload has a contract_type that is
\* missing or already upper-cased.
C22_Original ==
    /\ last.options # None => UpperCased(last.options[1])
    /\ HasKey(cacheFile, "options") => UpperCased(cacheFile.payload["options"][1])

(* ------------------------------ pagination ----------------------------- *)
IsFetch == call.fn = "fetch_option_snapshots"

RECURSIVE ContractsOf(_)
\* the contracts of a run of answered pages, page after page
ContractsOf(pages) ==
    IF Len(pages) = 0 THEN <<>>
    ELSE ContractsOf(SubSeq(pages, 1, Len(pages) - 1))
             \o normalize_option_snapshots(pages[Len(pages)].results)

\* C23: fetch_option_snapshots returns only after a page without next_url
\* has been answered, and what it returns is the concatenation, in page
\* order, of the contracts of every page it requested; when a page request
\* fails the call raises and no list is returned.
C23_AllPagesOrNothing ==
    IsFetch =>
        /\ call.pc = "returned" =>
              /\ Len(call.pages) >= 1
              /\ Len(call.requested) = Len(call.pages)
              /\ ~HasNextUrl(call.pages[Len(call.pages)].next_url)
              /\ \A i \in 1..(Len(call.pages) - 1) : HasNextUrl(call.pages[i].next_url)
              /\ call.res = Some(ContractsOf(call.pages))
        /\ call.pc = "raised" =>
              /\ call.res = None
              /\ Len(call.requested) = Len(call.pages) + 1
        /\ call.pc = "while" => call.res = None

\* a fetch that returned the contracts of three pages, the first two of
\* them non-empty
C23_Witness ==
    /\ IsFetch
    /\ call.pc = "returned"
    /\ Len(call.pages) = 3
    /\ call.pages[1].results # <<>>
    /\ call.pages[2].results # <<>>
    /\ call.pages[1].results # call.pages[2].results

(* --------------------------- failure reports --------------------------- *)
\* C24 as stated: every provider failure of a data request is reported as
\* exactly one of two outcomes, "API Error" for a remote error and
\* "Connection Error" for a transport error (unreachable or timed out);
\* none is reported as the other kind and none passes both handlers.
C24_Original ==
    (call.fn = "load_market_data" /\ call.pc = "failed") =>
        /\ call.outcome = "HTTPError" => call.dialog = "API Error"
        /\ call.outcome \in {"URLError", "TimeoutError"} =>
              call.dialog = "Connection Error"
        /\ call.dialog \in {"API Error", "Connection Error"}

(* ----------------------- lists after a refresh ------------------------- *)
\* the values of dimension key among the eligible records that match the
\* selections of the other two dimensions as the page now has them
ValuesAtEnd(key) ==
    {FilterLabel(ui.page, r, key)[1] :
        r \in {x \in {EligibleRecords(ui)[i] : i \in 1..Len(EligibleRecords(ui))} :
                  /\ Truthy(FilterLabel(ui.page, x, key), key)
                  /\ \A other \in Dimensions \ {key} :
                        \/ Var(ui, other) = AllOf(other)
                        \/ FilterLabel(ui.page, x, other) = Some(Var(ui, other))}}

\* C25 as stated: after every refresh the list offered for each dimension
\* is "All" plus exactly the values of the eligible records that match the
\* other two selections as they stand at the end of that refresh.
C25_Original ==
    ui.event.op # "none" =>
        \A key \in Dimensions : ui.values[key] = {AllOf(key)} \cup ValuesAtEnd(key)

(* --------------------------- failed refresh ---------------------------- *)
\* this step is a request that ended in a provider failure
FailedStep == last'.op # "none" /\ last'.outcome \in Failures

\* C26: a request in which a provider call fails (any of the three calls of
\* load_market_data, or the fetch of load_option_records) leaves the cache
\* file exactly as it was, and the same request made right after it, under
\* the same label, calls the provider again.
C26_FailureLeavesCache ==
    [][/\ FailedStep =>
             /\ cacheFile' = cacheFile
             /\ last'.calls # <<>>
             /\ MarketDataStep => ~FreshFor(cacheFile', last'.label, last'.horizon)
             /\ OptionRecordsStep =>
                   ~(Stamped(cacheFile', last'.label) /\ HasKey(cacheFile', "options"))
       /\ (/\ last.op # "none" /\ last.outcome \in Failures
           /\ last'.op = last.op
           /\ last'.horizon = last.horizon /\ last'.label = last.label)
          => last'.calls # <<>>]_vars

\* a refresh whose third call failed over a payload of an earlier label,
\* which is still in the file
C26_Witness ==
    /\ last.op = "load_market_data"
    /\ last.outcome \in Failures
    /\ last.calls = CallNames
    /\ HasKey(cacheFile, "stock")
    /\ HasKey(cacheFile, "last_updated")
    /\ cacheFile.payload["last_updated"] # Some(last.label)

(* ------------------------- provenance of a stamp ----------------------- *)
\* the feeds carry the label under which they were fetched: the close of
\* the stock snapshot and the day_close of every contract
StockFetchedOn(f, L) == f.payload["stock"][1]["close"] = Some(L)

OptionsFetchedOn(f, L) ==
    \A i \in 1..Len(f.payload["options"][1]) :
        f.payload["options"][1][i]["day_close"] = Some(L)

\* C27 as stated: whenever the persisted payload is stamped with label L,
\* its stock snapshot and its options list were both fetched while the
\* effective trading-day label was L.
C27_Original ==
    HasKey(cacheFile, "last_updated") =>
        /\ HasKey(cacheFile, "stock") =>
              StockFetchedOn(cacheFile, cacheFile.payload["last_updated"][1])
        /\ HasKey(cacheFile, "options") =>
              OptionsFetchedOn(cacheFile, cacheFile.payload["last_updated"][1])

C29_Original ==
    call.fn = "_cache_path" => (call.a # call.b => call.path_a # call.path_b)

(* ---------------------------- preset type ------------------------------ *)
\* the contract type a naked strategy asks for
TypeOfStrategy(strategy) == IF strategy = "Naked Call" THEN "CALL" ELSE "PUT"

\* C30 as stated, in the state right after a data load (no dropdown has
\* been touched since): on the Call/Put page every record of the result
\* list has the contract type of the strategy, CALL for "Naked Call" and
\* PUT for "Naked Put".
C30_Original ==
    (ui.page = "CallPutAnalysisPage" /\ ui.event.op = "load") =>
        \A i \in 1..Len(ui.records) :
            FilterLabel(ui.page, ui.records[i], "type")
                = Some(TypeOfStrategy(ui.strategy))
====
